---- MODULE Spec2Model ----
(***************************************************************************)
(* The authenticated file-ingestion subsystem of backend/src/server.js:     *)
(* the multer storage engine (destination, filename), the fileFilter and    *)
(* the two upload endpoints POST /img/ and POST /document/.                 *)
(*                                                                          *)
(* JavaScript strings are sequences of one-character strings, so that       *)
(* startsWith, indexOf, slice and the extension regular expression are      *)
(* computed character by character, as the code computes them.              *)
(***************************************************************************)
EXTENDS Integers, Sequences, FiniteSets, TLC

VARIABLES cwd, clock, req, pc, ran, file, res, disk

vars == <<cwd, clock, req, pc, ran, file, res, disk>>

(***************************************************************************)
(* Bounds of the model.                                                     *)
(***************************************************************************)
MaxUploads == 2
MaxTicks == 2

Uploads == 1..MaxUploads

(***************************************************************************)
(* String primitives of the JavaScript runtime.                             *)
(***************************************************************************)
startsWith(s, p) ==
  /\ Len(p) <= Len(s)
  /\ SubSeq(s, 1, Len(p)) = p

\* String.prototype.indexOf: 0-based position of the first occurrence, or -1.
indexOf(s, p) ==
  LET hits == { i \in 0..(Len(s) - Len(p)) : SubSeq(s, i + 1, i + Len(p)) = p }
  IN IF hits = {} THEN -1
     ELSE CHOOSE i \in hits : \A j \in hits : i <= j

\* String.prototype.slice(start): a negative start counts from the end.
slice(s, start) ==
  LET from == IF start < 0
              THEN (IF Len(s) + start < 0 THEN 0 ELSE Len(s) + start)
              ELSE (IF start > Len(s) THEN Len(s) ELSE start)
  IN SubSeq(s, from + 1, Len(s))

\* Case folding of the `i` flag, on the letters of the extension group.
toLowerCase(c) ==
  CASE c = "B" -> "b"
    [] c = "C" -> "c"
    [] c = "D" -> "d"
    [] c = "E" -> "e"
    [] c = "F" -> "f"
    [] c = "G" -> "g"
    [] c = "I" -> "i"
    [] c = "J" -> "j"
    [] c = "M" -> "m"
    [] c = "N" -> "n"
    [] c = "O" -> "o"
    [] c = "P" -> "p"
    [] c = "X" -> "x"
    [] OTHER -> c

lower(s) == [i \in 1..Len(s) |-> toLowerCase(s[i])]

\* The characters at which `$` matches under the `m` flag and which `.`
\* does not match.
LineTerminators == {"\n", "\r"}

RECURSIVE digits(_)
\* Number-to-string conversion of the template literal.
digits(n) ==
  LET d == <<"0","1","2","3","4","5","6","7","8","9">>
  IN IF n < 10 THEN <<d[n + 1]>> ELSE digits(n \div 10) \o <<d[(n % 10) + 1]>>

(***************************************************************************)
(* String constants of server.js.                                           *)
(***************************************************************************)
IMAGE == <<"i","m","a","g","e">>
IMG == <<"i","m","g">>
DOCUMENT == <<"d","o","c","u","m","e","n","t">>
PublicImg == <<".","/","p","u","b","l","i","c","/","i","m","g","/">>
PublicDocument == <<".","/","p","u","b","l","i","c","/","d","o","c","u","m","e","n","t","/">>
MimeDocx == <<"a","p","p","l","i","c","a","t","i","o","n","/","v","n","d",".","o","p","e","n","x","m","l","f","o","r","m","a","t","s","-","o","f","f","i","c","e","d","o","c","u","m","e","n","t",".","w","o","r","d","p","r","o","c","e","s","s","i","n","g","m","l",".","d","o","c","u","m","e","n","t">>
MimeMsword == <<"a","p","p","l","i","c","a","t","i","o","n","/","m","s","w","o","r","d">>
MimePdf == <<"a","p","p","l","i","c","a","t","i","o","n","/","p","d","f">>
ImageNotAttached == <<"I","m","a","g","e"," ","n","o","t"," ","a","t","t","a","c","h","e","d">>
DocumentNotAttached == <<"D","o","c","u","m","e","n","t"," ","n","o","t"," ","a","t","t","a","c","h","e","d">>
UnsupportedFileType == <<"U","n","s","u","p","p","o","r","t","e","d"," ","f","i","l","e"," ","t","y","p","e">>

\* The value `false` that destination passes when no bucket applies.
False == <<"false">>

\* The alternatives of the extension group (gif|jpe?g|bmp|png|pdf|docx|doc).
Alternatives ==
  { <<"g","i","f">>, <<"j","p","g">>, <<"j","p","e","g">>, <<"b","m","p">>,
    <<"p","n","g">>, <<"p","d","f">>, <<"d","o","c","x">>, <<"d","o","c">> }

(***************************************************************************)
(* The two endpoints: the field name given to upload.single, the text the   *)
(* handler searches the URL for, and the body sent when req.file is unset.  *)
(***************************************************************************)
Routes == {"/img/", "/document/"}

fieldname(route) == IF route = "/img/" THEN IMAGE ELSE DOCUMENT

segment(route) == IF route = "/img/" THEN IMG ELSE DOCUMENT

notAttached(route) ==
  IF route = "/img/" THEN ImageNotAttached ELSE DocumentNotAttached

(***************************************************************************)
(* Session Authenticator (./utils getUser): the user id of the session, or  *)
(* absent.                                                                  *)
(***************************************************************************)
Absent == "absent"

getUser(r) == [userId |-> r.session]

(***************************************************************************)
(* fileFilter's test                                                        *)
(*   String(file.originalname).match(/.*\.(gif|jpe?g|bmp|png|pdf|docx|doc)$/gim) *)
(* The match may start anywhere and `.*` may be empty, so it succeeds iff   *)
(* some '.' is followed by an alternative (letters compared without case)   *)
(* that ends at the end of the input or, by the `m` flag, right before a    *)
(* line terminator.                                                         *)
(***************************************************************************)
matchAt(name, i, e) ==
  /\ name[i] = "."
  /\ i + Len(e) <= Len(name)
  /\ lower(SubSeq(name, i + 1, i + Len(e))) = e
  /\ \/ i + Len(e) = Len(name)
     \/ name[i + Len(e) + 1] \in LineTerminators

match(name) ==
  \E i \in 1..Len(name) : \E e \in Alternatives : matchAt(name, i, e)

(***************************************************************************)
(* storage.destination and storage.filename.                                *)
(***************************************************************************)
\* destination with a default bucket instead of the refusal.
destination_DefaultBucket(f) ==
  IF startsWith(f.mimetype, IMAGE) THEN PublicImg ELSE PublicDocument

destination(f) ==
  IF startsWith(f.mimetype, IMAGE) THEN PublicImg
  ELSE IF \/ startsWith(f.mimetype, MimeDocx)
          \/ startsWith(f.mimetype, MimeMsword)
          \/ startsWith(f.mimetype, MimePdf)
       THEN PublicDocument
       ELSE False

\* filename without the timestamp.
filename_NoTimestamp(f, now) ==
  f.fieldname \o <<"-">> \o f.originalname

filename(f, now) ==
  f.fieldname \o <<"-">> \o digits(now) \o <<"-">> \o f.originalname

(***************************************************************************)
(* path.join of the disk storage engine: joins with '/', drops a leading    *)
(* './' and collapses repeated separators.                                  *)
(***************************************************************************)
RECURSIVE collapse(_)
collapse(s) ==
  IF Len(s) < 2 THEN s
  ELSE IF s[1] = "/" /\ s[2] = "/" THEN collapse(Tail(s))
  ELSE <<s[1]>> \o collapse(Tail(s))

normalize(s) ==
  LET t == collapse(s)
  IN IF startsWith(t, <<".","/">>) THEN SubSeq(t, 3, Len(t)) ELSE t

pathJoin(dir, name) == normalize(dir \o <<"/">> \o name)

(***************************************************************************)
(* url.pathToFileURL(p).toString(): the path resolved against the working   *)
(* directory, percent-encoded, behind the file scheme.                      *)
(***************************************************************************)
encodeChar(c) ==
  CASE c = "%"  -> <<"%","2","5">>
    [] c = "\n" -> <<"%","0","A">>
    [] c = "\r" -> <<"%","0","D">>
    [] c = " "  -> <<"%","2","0">>
    [] c = "#"  -> <<"%","2","3">>
    [] c = "?"  -> <<"%","3","F">>
    [] OTHER -> <<c>>

RECURSIVE encode(_)
encode(s) == IF s = <<>> THEN <<>> ELSE encodeChar(Head(s)) \o encode(Tail(s))

pathToFileURL(dir, p) ==
  <<"f","i","l","e",":","/","/">> \o encode(dir \o <<"/">> \o p)

\* The body the handlers send for a stored file (lines 244-245, 260-261).
reference(route, dir, p) ==
  LET fileURL == pathToFileURL(dir, p)
  IN slice(fileURL, indexOf(fileURL, segment(route)))

(***************************************************************************)
(* Inputs: the requests a client can send.                                  *)
(***************************************************************************)
MimePng == <<"i","m","a","g","e","/","p","n","g">>
MimeGif == <<"i","m","a","g","e","/","g","i","f">>
MimeText == <<"t","e","x","t","/","p","l","a","i","n">>

Mimes == {MimePng, MimeGif, MimePdf, MimeMsword, MimeDocx, MimeText}

CatPNG == <<"c","a","t",".","P","N","G">>
ReportPdf == <<"r",".","p","d","f">>
DigitPng == <<"2","-","a",".","p","n","g">>
PngLineExe == <<"a",".","p","n","g","\n",".","e","x","e">>

Names ==
  { CatPNG, ReportPdf, DigitPng, PngLineExe,
    <<"a",".","d","o","c","x">>, <<"a",".","d","o","c">>, <<"a",".","g","i","f">>,
    <<"a",".","j","p","g">>, <<"a",".","J","p","e","g">>, <<"a",".","b","m","p">>,
    <<"a",".","p","n","g">>, <<".","p","n","g">>, <<"i","m","g",".","p","d","f">>,
    <<"a"," ","b",".","p","n","g">>, <<"a",".","e","x","e","\n",".","p","n","g">>,
    <<"a",".","P","D","F","\r",".","s","h">>,
    <<"x",".","e","x","e">>, <<"p","n","g">>, <<"a",".","p","n","g","x">>,
    <<"a",".","p","n","g",".","e","x","e">>, <<"a",".","j","p","e">> }

Sessions == {Absent, "user1"}

\* The directories the server may have been started in.
AppDir == <<"/","a","p","p">>

WorkDirs == { AppDir, <<"/","d","o","c","u","m","e","n","t","s">> }

\* The readings of Date.getTime() at start-up.
StartTimes == {9}

Request(route, session, attached, mimetype, originalname) ==
  [route |-> route, session |-> session, attached |-> attached,
   mimetype |-> mimetype, originalname |-> originalname]

NoRequest == Request("", Absent, FALSE, <<>>, <<>>)

\* A multipart request carrying one file, or none.
Requests(mimes, names) ==
  { Request(rt, ss, TRUE, m, n) : rt \in Routes, ss \in Sessions, m \in mimes, n \in names }
  \cup { Request(rt, ss, FALSE, <<>>, <<>>) : rt \in Routes, ss \in Sessions }

AllRequests == Requests(Mimes, Names)

\* The requests of the runs with several uploads in flight.
FewRequests ==
  { Request(rt, "user1", TRUE, m, n) :
      rt \in Routes, m \in {MimePng, MimePdf}, n \in {<<"a",".","p","n","g">>, DigitPng} }
  \cup { Request("/img/", Absent, TRUE, MimePng, <<"a",".","p","n","g">>),
         Request("/document/", "user1", TRUE, MimePdf, <<"x",".","e","x","e">>),
         Request("/document/", "user1", FALSE, <<>>, <<>>) }

\* The file object multer hands to fileFilter and to the storage engine.
fileOf(r) ==
  [fieldname |-> fieldname(r.route), originalname |-> r.originalname,
   mimetype |-> r.mimetype]

\* req.file: unset, or the destination, filename and path of the stored file.
\* `now` keeps the clock reading the file name was built from.
NoFile == [destination |-> <<>>, filename |-> <<>>, path |-> <<>>, now |-> 0]

NoResponse == [kind |-> "none", text |-> <<>>]

Body(text) == [kind |-> "body", text |-> text]

Error(text) == [kind |-> "error", text |-> text]

TypeError == <<"T","y","p","e","E","r","r","o","r">>

(***************************************************************************)
(* Initial state: no request received, both storage directories empty.      *)
(* The storage paths are relative, so the runs with several uploads in      *)
(* flight are taken from one working directory; the runs of one upload      *)
(* start in any of them.                                                    *)
(***************************************************************************)
Start(dirs) ==
  /\ cwd \in dirs
  /\ clock \in StartTimes
  /\ req = [u \in Uploads |-> NoRequest]
  /\ pc = [u \in Uploads |-> "Idle"]
  /\ ran = [u \in Uploads |-> {}]
  /\ file = [u \in Uploads |-> NoFile]
  /\ res = [u \in Uploads |-> NoResponse]
  /\ disk = <<>>

Init == Start({AppDir})

InitOne == Start(WorkDirs)

(***************************************************************************)
(* The server is single-threaded: the callbacks that follow each other      *)
(* without an I/O boundary (fileFilter and the storage engine's             *)
(* destination and filename; the end of the write and the route handler)    *)
(* run to completion before a step of another upload.                       *)
(***************************************************************************)
Turn(u) == \A v \in Uploads \ {u} : pc[v] \notin {"Accepted", "Stored"}

(***************************************************************************)
(* A request arrives at one of the two endpoints.                           *)
(***************************************************************************)
Receive(u, r) ==
  /\ pc[u] = "Idle"
  /\ Turn(u)
  /\ \A v \in Uploads : v < u => pc[v] # "Idle"
  /\ req' = [req EXCEPT ![u] = r]
  /\ pc' = [pc EXCEPT ![u] = "Received"]
  /\ UNCHANGED <<cwd, clock, ran, file, res, disk>>

(***************************************************************************)
(* fileFilter (lines 194-221), called by multer for the file of the         *)
(* request.  cb(null, true) admits the file, cb(null, false) skips it and   *)
(* cb(error) fails the request with the error.                              *)
(***************************************************************************)
\* fileFilter without the authentication gate.
fileFilter_NoAuthGate(r) ==
  IF match(fileOf(r).originalname)
  THEN [pc |-> "Accepted", ran |-> {"auth", "extension"}, res |-> NoResponse]
  ELSE [pc |-> "RejectedError", ran |-> {"auth", "extension"},
        res |-> Error(UnsupportedFileType)]

fileFilter(r) ==
  IF getUser(r).userId # Absent
  THEN IF match(fileOf(r).originalname)
       THEN [pc |-> "Accepted", ran |-> {"auth", "extension"}, res |-> NoResponse]
       ELSE [pc |-> "RejectedError", ran |-> {"auth", "extension"},
             res |-> Error(UnsupportedFileType)]
  ELSE [pc |-> "Skipped", ran |-> {"auth"}, res |-> NoResponse]

FileFilter(u) ==
  /\ pc[u] = "Received"
  /\ Turn(u)
  /\ req[u].attached
  /\ LET out == fileFilter(req[u])
     IN /\ pc' = [pc EXCEPT ![u] = out.pc]
        /\ ran' = [ran EXCEPT ![u] = @ \cup out.ran]
        /\ res' = [res EXCEPT ![u] = out.res]
  /\ UNCHANGED <<cwd, clock, req, file, disk>>

(***************************************************************************)
(* The disk storage engine on an admitted file: destination, then filename, *)
(* then path.join of the two and the opening of the write stream.  path.join*)
(* throws a TypeError when destination passed false.                        *)
(***************************************************************************)
handleFile(r, now) ==
  LET d == destination(fileOf(r))
      n == filename(fileOf(r), now)
  IN [destination |-> d, filename |-> n,
      path |-> IF d = False THEN <<>> ELSE pathJoin(d, n), now |-> now]

HandleFile(u) ==
  /\ pc[u] = "Accepted"
  /\ Turn(u)
  /\ LET f == handleFile(req[u], clock)
     IN /\ ran' = [ran EXCEPT ![u] = @ \cup {"destination", "filename"}]
        /\ IF f.destination = False
           THEN /\ pc' = [pc EXCEPT ![u] = "StorageError"]
                /\ res' = [res EXCEPT ![u] = Error(TypeError)]
                /\ file' = [file EXCEPT ![u] = [NoFile EXCEPT !.destination = False]]
                /\ disk' = disk
           ELSE /\ pc' = [pc EXCEPT ![u] = "Writing"]
                /\ res' = res
                /\ file' = [file EXCEPT ![u] = f]
                /\ disk' = (f.path :> [by |-> u, complete |-> FALSE]) @@ disk
  /\ UNCHANGED <<cwd, clock, req>>

(***************************************************************************)
(* The write stream finishes: the file is complete and becomes req.file.    *)
(***************************************************************************)
Finish(u) ==
  /\ pc[u] = "Writing"
  /\ Turn(u)
  /\ pc' = [pc EXCEPT ![u] = "Stored"]
  /\ ran' = [ran EXCEPT ![u] = @ \cup {"write"}]
  /\ disk' = IF disk[file[u].path].by = u
             THEN [disk EXCEPT ![file[u].path].complete = TRUE]
             ELSE disk
  /\ UNCHANGED <<cwd, clock, req, file, res>>

(***************************************************************************)
(* The route handlers (lines 242-252 and 258-263).                          *)
(***************************************************************************)
handler(r, f, dir) ==
  IF f # NoFile
  THEN Body(reference(r.route, dir, f.path))
  ELSE Body(notAttached(r.route))

Handler(u) ==
  /\ \/ pc[u] = "Stored"
     \/ pc[u] = "Skipped"
     \/ pc[u] = "Received" /\ ~req[u].attached
  /\ Turn(u)
  /\ res' = [res EXCEPT ![u] = handler(req[u], file[u], cwd)]
  /\ pc' = [pc EXCEPT ![u] =
              IF pc[u] = "Stored" THEN "ReferenceReturned"
              ELSE IF pc[u] = "Skipped" THEN "SilentlyIgnored"
              ELSE "NotAttached"]
  /\ UNCHANGED <<cwd, clock, req, ran, file, disk>>

(***************************************************************************)
(* A millisecond passes.                                                    *)
(***************************************************************************)
Tick ==
  /\ \E s \in StartTimes : s <= clock /\ clock < s + MaxTicks
  /\ clock' = clock + 1
  /\ UNCHANGED <<cwd, req, pc, ran, file, res, disk>>

(***************************************************************************)
(* Spec: several uploads in flight, interleaved at the I/O boundaries.      *)
(* SpecOne: one upload, over the whole set of requests.                     *)
(***************************************************************************)
Next ==
  \/ \E u \in Uploads : \E r \in FewRequests : Receive(u, r)
  \/ \E u \in Uploads : FileFilter(u)
  \/ \E u \in Uploads : HandleFile(u)
  \/ \E u \in Uploads : Finish(u)
  \/ \E u \in Uploads : Handler(u)
  \/ Tick

Spec == Init /\ [][Next]_vars

NextOne ==
  \/ \E r \in AllRequests : Receive(1, r)
  \/ FileFilter(1)
  \/ HandleFile(1)
  \/ Finish(1)
  \/ Handler(1)
  \/ Tick

SpecOne == InitOne /\ [][NextOne]_vars

(***************************************************************************)
(* Vocabulary of the properties.                                            *)
(***************************************************************************)
\* The allow-list of filename extensions.
AllowList ==
  { <<"g","i","f">>, <<"j","p","g">>, <<"j","p","e","g">>, <<"b","m","p">>,
    <<"p","n","g">>, <<"p","d","f">>, <<"d","o","c","x">>, <<"d","o","c">> }

\* Position of the last '.' of the whole filename, 0 when there is none.
lastDot(name) ==
  LET dots == { i \in 1..Len(name) : name[i] = "." }
  IN IF dots = {} THEN 0 ELSE CHOOSE i \in dots : \A j \in dots : j <= i

\* The extension is the text after the last '.', compared without case.
AllowListed(name) ==
  /\ lastDot(name) > 0
  /\ lower(SubSeq(name, lastDot(name) + 1, Len(name))) \in AllowList

DocumentMime(m) ==
  \/ startsWith(m, MimeDocx)
  \/ startsWith(m, MimeMsword)
  \/ startsWith(m, MimePdf)

ClassifiedMime(m) == startsWith(m, IMAGE) \/ DocumentMime(m)

Authenticated(r) == r.session # Absent

\* The files an upload has put into the storage directories.
FilesOf(u) == { p \in DOMAIN disk : disk[p].by = u }

\* The file of the request has been through fileFilter.
Filtered(u) == req[u].attached /\ pc[u] \notin {"Idle", "Received"}

Ended(u) ==
  pc[u] \in {"SilentlyIgnored", "NotAttached", "RejectedError", "StorageError",
             "ReferenceReturned"}

\* The directory and the first path component of the endpoint's bucket.
dirOf(route) == IF route = "/img/" THEN PublicImg ELSE PublicDocument

bucketOf(dir) == IF dir = PublicImg THEN IMG ELSE DOCUMENT

(***************************************************************************)
(* C1: every file in either storage directory was written by an upload that *)
(* passed all three gates (authenticated session, extension in the          *)
(* allow-list, declared MIME type image or one of the document types), and  *)
(* an upload rejected at any gate writes nothing.                           *)
(***************************************************************************)
C1_OnlyGatedUploadsOnDisk ==
  /\ \A p \in DOMAIN disk :
       /\ Authenticated(req[disk[p].by])
       /\ AllowListed(req[disk[p].by].originalname)
       /\ ClassifiedMime(req[disk[p].by].mimetype)
  /\ \A u \in Uploads :
       (\/ ~Authenticated(req[u])
        \/ ~AllowListed(req[u].originalname)
        \/ ~ClassifiedMime(req[u].mimetype)) => FilesOf(u) = {}

(***************************************************************************)
(* C2: an unauthenticated upload, whatever its MIME type and filename, runs *)
(* no check after the authentication check, raises no error, leaves both    *)
(* storage directories unchanged and is answered with the body the same     *)
(* endpoint sends for a request without a file.                             *)
(***************************************************************************)
C2_UnauthenticatedSilentlyIgnored ==
  \A u \in Uploads :
    (Filtered(u) /\ ~Authenticated(req[u])) =>
      /\ ran[u] = {"auth"}
      /\ pc[u] \in {"Skipped", "SilentlyIgnored"}
      /\ res[u].kind # "error"
      /\ file[u] = NoFile
      /\ disk = <<>>
      /\ pc[u] = "SilentlyIgnored" =>
           res[u] = handler(Request(req[u].route, req[u].session, FALSE, <<>>, <<>>),
                            NoFile, cwd)

C2_Witness ==
  \E u \in Uploads :
    /\ pc[u] = "SilentlyIgnored"
    /\ ~Authenticated(req[u])
    /\ req[u].attached
    /\ ~AllowListed(req[u].originalname)
    /\ res[u] = Body(notAttached(req[u].route))

(***************************************************************************)
(* C3: an authenticated upload whose extension (the text after the last '.' *)
(* of the whole filename, without case) is outside the allow-list is denied *)
(* with the error "Unsupported file type", whatever the declared MIME type, *)
(* and writes no file.                                                      *)
(***************************************************************************)
C3_BadExtensionDenied ==
  \A u \in Uploads :
    (Filtered(u) /\ Authenticated(req[u]) /\ ~AllowListed(req[u].originalname)) =>
      /\ pc[u] = "RejectedError"
      /\ res[u] = Error(UnsupportedFileType)
      /\ FilesOf(u) = {}

C5_ReferenceRootedAtBucket ==
  \A u \in Uploads :
    pc[u] = "ReferenceReturned" =>
      res[u] = Body(bucketOf(file[u].destination) \o <<"/">> \o encode(file[u].filename))

(***************************************************************************)
(* C6: the endpoint fixes the bucket: a file accepted through POST          *)
(* /document/ is stored in the document directory and answered with a body  *)
(* prefixed document/, a file accepted through POST /img/ is stored in the  *)
(* image directory and answered with a body prefixed img/.                  *)
(***************************************************************************)
C6_EndpointFixesBucket ==
  \A u \in Uploads :
    file[u].path # <<>> =>
      /\ file[u].destination = dirOf(req[u].route)
      /\ pc[u] = "ReferenceReturned" =>
           startsWith(res[u].text, segment(req[u].route) \o <<"/">>)

(***************************************************************************)
(* C7: an authenticated request whose field name, declared MIME type and    *)
(* extension agree writes exactly one file, in the directory of its bucket, *)
(* named <field-name>-<epoch-milliseconds>-<original-filename>, and the     *)
(* returned reference starts with img/ or document/ respectively.           *)
(***************************************************************************)
Agreeing(r) ==
  /\ r.attached
  /\ Authenticated(r)
  /\ AllowListed(r.originalname)
  /\ \/ r.route = "/img/" /\ startsWith(r.mimetype, IMAGE)
     \/ r.route = "/document/" /\ DocumentMime(r.mimetype)

C7_AgreeingUploadStored ==
  \A u \in Uploads :
    (Agreeing(req[u]) /\ Ended(u)) =>
      /\ pc[u] = "ReferenceReturned"
      /\ FilesOf(u) = {file[u].path}
      /\ file[u].path =
           SubSeq(dirOf(req[u].route), 3, Len(dirOf(req[u].route)))
             \o fieldname(req[u].route) \o <<"-">> \o digits(file[u].now)
             \o <<"-">> \o req[u].originalname
      /\ res[u].kind = "body"
      /\ startsWith(res[u].text, segment(req[u].route) \o <<"/">>)

(***************************************************************************)
(* C8: of two accepted uploads the second overwrites the first's file only  *)
(* if both have the same field name, the same millisecond timestamp, the    *)
(* same original filename and the same bucket; otherwise they are stored as *)
(* two distinct files and neither is overwritten.                           *)
(***************************************************************************)
SameName(u, v) ==
  /\ fieldname(req[u].route) = fieldname(req[v].route)
  /\ file[u].now = file[v].now
  /\ req[u].originalname = req[v].originalname
  /\ file[u].destination = file[v].destination

C8_OverwriteOnlyOnSameName ==
  \A u \in Uploads : \A v \in Uploads \ {u} :
    (file[u].path # <<>> /\ file[v].path # <<>>) =>
      /\ file[u].path = file[v].path => SameName(u, v)
      /\ ~SameName(u, v) =>
           /\ file[u].path \in DOMAIN disk
           /\ file[v].path \in DOMAIN disk
           /\ disk[file[u].path].by # v
           /\ disk[file[v].path].by # u

C8_Witness ==
  \E u \in Uploads : \E v \in Uploads \ {u} :
    /\ pc[u] = "ReferenceReturned"
    /\ pc[v] = "ReferenceReturned"
    /\ req[u] = req[v]
    /\ file[u].now # file[v].now
    /\ file[u].path # file[v].path
    /\ disk[file[u].path] = [by |-> u, complete |-> TRUE]
    /\ disk[file[v].path] = [by |-> v, complete |-> TRUE]

(***************************************************************************)
(* C9: every upload that fileFilter admits has a bucket: the storage engine *)
(* never gets false from destination.                                       *)
(***************************************************************************)
C9_AdmittedHasBucket ==
  \A u \in Uploads :
    "destination" \in ran[u] => file[u].destination \in {PublicImg, PublicDocument}

(***************************************************************************)
(* C10: an upload ends in exactly one of Silently-Ignored (unauthenticated),*)
(* Rejected-Error (Unsupported file type) or Reference-Returned, and a      *)
(* reference is returned only after the upload was accepted and its file    *)
(* completely written.                                                      *)
(***************************************************************************)
C10_Lifecycle ==
  \A u \in Uploads :
    (req[u].attached /\ Ended(u)) =>
      /\ pc[u] \in {"SilentlyIgnored", "RejectedError", "ReferenceReturned"}
      /\ pc[u] = "SilentlyIgnored" => ~Authenticated(req[u])
      /\ pc[u] = "RejectedError" => res[u] = Error(UnsupportedFileType)
      /\ pc[u] = "ReferenceReturned" =>
           {"auth", "extension", "destination", "filename", "write"} \subseteq ran[u]

====
